---- MODULE Spec2Model ----
(***************************************************************************)
(* sublime-convert: tmTheme (plist tree) -> sublime-color-scheme document. *)
(*                                                                         *)
(* Texts are sequences of one-character strings, so that slicing,          *)
(* stripping, case conversion and hex parsing are computed, not assumed.   *)
(* An absent text (Python None) is the text None.  A Python dict is an     *)
(* insertion-ordered association list of <<key, value>> pairs.             *)
(* An operation that raises returns a record with ok = FALSE.              *)
(***************************************************************************)
EXTENDS Integers, Sequences, FiniteSets, TLC

VARIABLES pc, theme, source, theme_info, color_palette, global_values,
          rules, document, ktext, konce, zin, zout

vars == <<pc, theme, source, theme_info, color_palette, global_values,
          rules, document, ktext, konce, zin, zout>>

(***************************************************************************)
(* Bounds of the checked input space.                                      *)
(***************************************************************************)
MaxKeyLen == 3
MaxEntries == 2
MaxValues == 1
MaxZipKeys == 2
MaxZipValues == 3

(***************************************************************************)
(* Texts.                                                                  *)
(***************************************************************************)
None == <<"<None>">>

T_settings == <<"s","e","t","t","i","n","g","s">>
T_uuid == <<"u","u","i","d">>
T_name == <<"n","a","m","e">>
T_scope == <<"s","c","o","p","e">>
T_author == <<"a","u","t","h","o","r">>
T_references == <<"r","e","f","e","r","e","n","c","e","s">>
T_variables == <<"v","a","r","i","a","b","l","e","s">>
T_globals == <<"g","l","o","b","a","l","s">>
T_rules == <<"r","u","l","e","s">>
T_foreground == <<"f","o","r","e","g","r","o","u","n","d">>
T_background == <<"b","a","c","k","g","r","o","u","n","d">>
T_fontStyle == <<"f","o","n","t","S","t","y","l","e">>
T_font_style == <<"f","o","n","t","_","s","t","y","l","e">>

Last(s) == s[Len(s)]

SeqsUpTo(S, n) == UNION {[1..m -> S] : m \in 0..n}

Range(s) == {s[i] : i \in 1..Len(s)}

\* Python list.pop(i) for 0 <= i < len: the list without its element i.
PopAt(s, i) == SubSeq(s, 1, i) \o SubSeq(s, i + 2, Len(s))

(***************************************************************************)
(* str.isupper() / str.lower() of one character.  UpperNoLower stands for  *)
(* a code point such as U+1D400 (MATHEMATICAL BOLD CAPITAL A): Python      *)
(* reports isupper() True for it and lower() returns it unchanged.         *)
(***************************************************************************)
UpperNoLower == "U+1D400"

AsciiUpper == {"A","B","C","D","E","F","G","H","I","J","K","L","M",
               "N","O","P","Q","R","S","T","U","V","W","X","Y","Z"}

LowerOf == [c \in AsciiUpper |->
             CASE c = "A" -> "a" [] c = "B" -> "b" [] c = "C" -> "c"
               [] c = "D" -> "d" [] c = "E" -> "e" [] c = "F" -> "f"
               [] c = "G" -> "g" [] c = "H" -> "h" [] c = "I" -> "i"
               [] c = "J" -> "j" [] c = "K" -> "k" [] c = "L" -> "l"
               [] c = "M" -> "m" [] c = "N" -> "n" [] c = "O" -> "o"
               [] c = "P" -> "p" [] c = "Q" -> "q" [] c = "R" -> "r"
               [] c = "S" -> "s" [] c = "T" -> "t" [] c = "U" -> "u"
               [] c = "V" -> "v" [] c = "W" -> "w" [] c = "X" -> "x"
               [] c = "Y" -> "y" [] c = "Z" -> "z"]

isupper(c) == c \in AsciiUpper \/ c = UpperNoLower

lower(c) == IF c \in AsciiUpper THEN LowerOf[c] ELSE c

Whitespace == {" ", "\n", "\t"}

RECURSIVE lstrip(_)
lstrip(t) == IF t # <<>> /\ Head(t) \in Whitespace THEN lstrip(Tail(t)) ELSE t

RECURSIVE rstrip(_)
rstrip(t) ==
  IF t # <<>> /\ Last(t) \in Whitespace
  THEN rstrip(SubSeq(t, 1, Len(t) - 1)) ELSE t

\* str.strip()
strip(t) == rstrip(lstrip(t))

(***************************************************************************)
(* Tree nodes (xml.etree Element): tag, text, ordered children.            *)
(***************************************************************************)
Node(tag, text, kids) == [tag |-> tag, text |-> text, kids |-> kids]
Key(t) == Node("key", t, <<>>)
Str(t) == Node("string", t, <<>>)
Dict(kids) == Node("dict", None, kids)
Array(kids) == Node("array", None, kids)

\* Element.findall(tag): the direct children with that tag, in order.
findall(node, tag) == SelectSeq(node.kids, LAMBDA n : n.tag = tag)

(***************************************************************************)
(* Insertion-ordered dict.                                                 *)
(***************************************************************************)
HasKey(map, k) == \E i \in 1..Len(map) : map[i][1] = k

IndexOf(map, k) == CHOOSE i \in 1..Len(map) : map[i][1] = k

Get(map, k) == map[IndexOf(map, k)][2]

\* map[k] = v: overwrite in place, or append a new key.
Put(map, k, v) ==
  IF HasKey(map, k)
  THEN [map EXCEPT ![IndexOf(map, k)] = <<k, v>>]
  ELSE Append(map, <<k, v>>)

DictKeys(map) == [i \in 1..Len(map) |-> map[i][1]]

(***************************************************************************)
(* format_keys: camelCase -> snake_case, in place on the key nodes.        *)
(***************************************************************************)
FormatCharKeepCase(c) == IF isupper(c) THEN <<"_", c>> ELSE <<c>>

FormatChar(c) == IF isupper(c) THEN <<"_", lower(c)>> ELSE <<c>>

RECURSIVE FormatText(_)
FormatText(t) ==
  IF t = <<>> THEN <<>> ELSE FormatChar(Head(t)) \o FormatText(Tail(t))

format_keys(keys) ==
  [i \in 1..Len(keys) |-> [keys[i] EXCEPT !.text = FormatText(keys[i].text)]]

(***************************************************************************)
(* Color palette: the dict {colorNN: definition, ..., "references": {...}} *)
(* as the ordered colorNN items (map), the value stored under the key      *)
(* "references", and whether that key is present.  is_none is the Python   *)
(* value None, which parse_colors returns for a tree with no children.     *)
(***************************************************************************)
Palette(map, references, has) ==
  [is_none |-> FALSE, map |-> map, references |-> references,
   has_references |-> has]

NonePalette ==
  [is_none |-> TRUE, map |-> <<>>, references |-> <<>>,
   has_references |-> FALSE]

\* f"var({id})"
Var(id) == <<"v","a","r","(">> \o id \o <<")">>

get_color_id(value, map) ==
  IF \E i \in 1..Len(map) : map[i][2] = value
  THEN map[CHOOSE i \in 1..Len(map) :
             /\ map[i][2] = value
             /\ \A j \in 1..(i - 1) : map[j][2] # value][1]
  ELSE None

\* dict.get(k): the value, or None.
DictGet(map, k) == IF HasKey(map, k) THEN Get(map, k) ELSE None

(***************************************************************************)
(* parse_dict: each key consumes the first remaining value; a value left   *)
(* over after the loop is stored raw under the last key.                   *)
(***************************************************************************)
\* One value stored under one key (lines 89-100).
StoreValue(map, key, value, is_color, palette) ==
  LET resolve == is_color /\ ~palette.is_none
      color_id == IF resolve THEN get_color_id(value.text, palette.map)
                  ELSE None
      reference == IF resolve THEN DictGet(palette.references, value.text)
                   ELSE None
  IN IF value.text = None THEN map
     ELSE IF reference # None THEN Put(map, key.text, Var(reference))
     ELSE IF color_id # None THEN Put(map, key.text, Var(color_id))
     ELSE Put(map, key.text, strip(value.text))

\* The loop of lines 87-103; yields the map and the values not consumed.
RECURSIVE parse_dict_loop(_, _, _, _, _)
parse_dict_loop(map, keys, values, is_color, palette) ==
  IF keys = <<>> THEN [map |-> map, values |-> values]
  ELSE IF values = <<>>
       THEN parse_dict_loop(map, Tail(keys), values, is_color, palette)
       ELSE parse_dict_loop(
              StoreValue(map, Head(keys), Head(values), is_color, palette),
              Tail(keys), Tail(values), is_color, palette)

\* Lines 105-106 with the overflow assignment left out.
OverflowSkipped(map, keys, values) == [ok |-> TRUE, map |-> map]

\* Lines 105-106; keys[len(keys) - 1] of an empty list raises IndexError.
Overflow(map, keys, values) ==
  IF Len(values) > 0
  THEN IF keys = <<>> THEN [ok |-> FALSE, map |-> map]
       ELSE [ok |-> TRUE, map |-> Put(map, Last(keys).text, Last(values).text)]
  ELSE [ok |-> TRUE, map |-> map]

parse_dict(map, keys, values, is_color, palette) ==
  LET r == parse_dict_loop(map, keys, values, is_color, palette)
  IN Overflow(r.map, keys, r.values)

(***************************************************************************)
(* Number formatting.                                                      *)
(***************************************************************************)
DigitChar == <<"0","1","2","3","4","5","6","7","8","9">>

\* str(n) for n >= 0
RECURSIVE Decimal(_)
Decimal(n) ==
  IF n < 10 THEN <<DigitChar[n + 1]>>
  ELSE Append(Decimal(n \div 10), DigitChar[(n % 10) + 1])

\* f"{n:02d}"
Pad2(n) == IF n < 10 THEN <<"0">> \o Decimal(n) ELSE Decimal(n)

\* f"color{i:02d}"
ColorId(i) == <<"c","o","l","o","r">> \o Pad2(i)

HexDigits == {"0","1","2","3","4","5","6","7","8","9",
              "a","b","c","d","e","f","A","B","C","D","E","F"}

HexVal(c) ==
  CASE c = "0" -> 0 [] c = "1" -> 1 [] c = "2" -> 2 [] c = "3" -> 3
    [] c = "4" -> 4 [] c = "5" -> 5 [] c = "6" -> 6 [] c = "7" -> 7
    [] c = "8" -> 8 [] c = "9" -> 9
    [] c \in {"a", "A"} -> 10 [] c \in {"b", "B"} -> 11
    [] c \in {"c", "C"} -> 12 [] c \in {"d", "D"} -> 13
    [] c \in {"e", "E"} -> 14 [] c \in {"f", "F"} -> 15

\* int(s, 16) of a text of hex digits; anything else raises ValueError here.
IsHexText(s) == s # <<>> /\ \A i \in 1..Len(s) : s[i] \in HexDigits

RECURSIVE Int16(_)
Int16(s) ==
  IF s = <<>> THEN 0
  ELSE 16 * Int16(SubSeq(s, 1, Len(s) - 1)) + HexVal(Last(s))

\* f"{n / 255:.2f}": n/255 rounded to hundredths (n/255 is never a tie).
AlphaTextTruncated(n) ==
  LET h == (100 * n) \div 255
  IN Decimal(h \div 100) \o <<".">>
       \o <<DigitChar[((h % 100) \div 10) + 1], DigitChar[(h % 10) + 1]>>

AlphaText(n) ==
  LET h == (200 * n + 255) \div 510
  IN Decimal(h \div 100) \o <<".">>
       \o <<DigitChar[((h % 100) \div 10) + 1], DigitChar[(h % 10) + 1]>>

\* f"color(var({reference}) alpha({alpha:.2f}))"
AlphaOfVar(reference, n) ==
  <<"c","o","l","o","r","(">> \o Var(reference)
    \o <<" ","a","l","p","h","a","(">> \o AlphaText(n) \o <<")",")">>

\* f"color({color_hex} alpha({alpha:.2f}))"
AlphaOfHex(color_hex, n) ==
  <<"c","o","l","o","r","(">> \o color_hex
    \o <<" ","a","l","p","h","a","(">> \o AlphaText(n) \o <<")",")">>

(***************************************************************************)
(* parse_colors.                                                           *)
(***************************************************************************)
RECURSIVE Flatten(_)
Flatten(ss) == IF ss = <<>> THEN <<>> ELSE Head(ss) \o Flatten(Tail(ss))

MapSeq(s, F(_)) == [i \in 1..Len(s) |-> F(s[i])]

IsColorText(t) == t # None /\ t # <<>> /\ t[1] = "#"

\* Lines 186-188: color.text += "^" for a "#" text longer than 7.
MarkText(t) == IF IsColorText(t) /\ Len(t) > 7 THEN Append(t, "^") ELSE t

MarkNode(n) == [n EXCEPT !.text = MarkText(n.text)]

MarkEntry(entry) == [entry EXCEPT !.kids = MapSeq(entry.kids, MarkNode)]

MarkDct(dct) ==
  [dct EXCEPT !.kids =
     MapSeq(dct.kids, LAMBDA n : IF n.tag = "dict" THEN MarkEntry(n) ELSE n)]

MarkArray(array) == [array EXCEPT !.kids = MapSeq(array.kids, MarkDct)]

\* theme[0] after the traversal of lines 182-188.
MarkRoot(root) ==
  [root EXCEPT !.kids =
     MapSeq(root.kids, LAMBDA n : IF n.tag = "array" THEN MarkArray(n) ELSE n)]

\* The "#" texts of the (marked) section, in traversal order.
CollectEntry(entry) ==
  LET cs == SelectSeq(entry.kids, LAMBDA n : IsColorText(n.text))
  IN [i \in 1..Len(cs) |-> cs[i].text]

CollectDct(dct) == Flatten(MapSeq(findall(dct, "dict"), CollectEntry))

CollectArray(array) == Flatten(MapSeq(array.kids, CollectDct))

CollectRoot(root) == Flatten(MapSeq(findall(root, "array"), CollectArray))

\* Lines 190-191 without the membership test.
RECURSIVE AppendAll(_, _)
AppendAll(colors, texts) ==
  IF texts = <<>> THEN colors
  ELSE AppendAll(Append(colors, Head(texts)), Tail(texts))

\* Lines 190-191: if not color.text in colors: colors.append(color.text)
RECURSIVE AppendNew(_, _)
AppendNew(colors, texts) ==
  IF texts = <<>> THEN colors
  ELSE AppendNew(IF Head(texts) \in Range(colors) THEN colors
                 ELSE Append(colors, Head(texts)),
                 Tail(texts))

\* Lines 194-196.
InitialColorMap(colors) == [i \in 1..Len(colors) |-> <<ColorId(i - 1), colors[i]>>]

\* Lines 200-211 for the items from index i on; color_map is rewritten
\* while it is scanned, so get_color_id sees the definitions as they are.
RECURSIVE ResolveAlpha(_, _, _)
ResolveAlpha(color_map, references, i) ==
  IF i > Len(color_map)
  THEN [ok |-> TRUE, map |-> color_map, references |-> references]
  ELSE LET id == color_map[i][1]
           color == color_map[i][2]
           n == Len(color)
       IN IF Last(color) # "^"
          THEN ResolveAlpha(color_map, references, i + 1)
          ELSE LET color_hex == SubSeq(color, 1, n - 3)
                   digits == SubSeq(color, IF n - 2 < 1 THEN 1 ELSE n - 2, n - 1)
                   reference == get_color_id(color_hex, color_map)
               IN IF ~IsHexText(digits)
                  THEN [ok |-> FALSE, map |-> color_map,
                        references |-> references]
                  ELSE ResolveAlpha(
                         Put(color_map, id,
                             IF reference # None
                             THEN AlphaOfVar(reference, Int16(digits))
                             ELSE AlphaOfHex(color_hex, Int16(digits))),
                         Put(references, color, id),
                         i + 1)

\* parse_colors(theme): the palette and the tree with its texts marked.
parse_colors(t) ==
  IF Len(t.kids) <= 0
  THEN [ok |-> TRUE, palette |-> NonePalette, theme |-> t]
  ELSE LET marked == [t EXCEPT !.kids[1] = MarkRoot(t.kids[1])]
           colors == AppendNew(<<>>, CollectRoot(marked.kids[1]))
           r == ResolveAlpha(InitialColorMap(colors), <<>>, 1)
       IN [ok |-> r.ok,
           palette |-> Palette(r.map, r.references, TRUE),
           theme |-> marked]

(***************************************************************************)
(* parse_theme_info.                                                       *)
(***************************************************************************)
KeysHaveText(keys) == \A i \in 1..Len(keys) : keys[i].text # None

\* Lines 66-69 with the loop left out.
RemoveUuidSkipped(keys, values, i, n) ==
  [ok |-> TRUE, keys |-> keys, values |-> values]

\* Lines 66-69: for i in range(n - 1), n the length before the loop; an
\* index past the end of either list raises IndexError.
RECURSIVE RemoveUuid(_, _, _, _)
RemoveUuid(keys, values, i, n) ==
  IF i > n - 2 THEN [ok |-> TRUE, keys |-> keys, values |-> values]
  ELSE IF i >= Len(keys) THEN [ok |-> FALSE, keys |-> keys, values |-> values]
  ELSE IF keys[i + 1].text = T_uuid
       THEN IF i >= Len(values)
            THEN [ok |-> FALSE, keys |-> keys, values |-> values]
            ELSE RemoveUuid(PopAt(keys, i), PopAt(values, i), i + 1, n)
       ELSE RemoveUuid(keys, values, i + 1, n)

\* Lines 58-63: the keys other than "settings", formatted.
InfoKeys(dct) ==
  format_keys(SelectSeq(findall(dct, "key"), LAMBDA k : k.text # T_settings))

\* One top-level dict (lines 58-71).
InfoOfDict(info, dct) ==
  LET keys == InfoKeys(dct)
      values == findall(dct, "string")
      u == RemoveUuid(keys, values, 0, Len(keys))
  IN IF ~KeysHaveText(SelectSeq(findall(dct, "key"),
                                LAMBDA k : k.text # T_settings)) \/ ~u.ok
     THEN [ok |-> FALSE, map |-> info]
     ELSE parse_dict(info, u.keys, u.values, FALSE, NonePalette)

RECURSIVE InfoOfDicts(_, _)
InfoOfDicts(info, dcts) ==
  IF dcts = <<>> THEN [ok |-> TRUE, map |-> info]
  ELSE LET r == InfoOfDict(info, Head(dcts))
       IN IF r.ok THEN InfoOfDicts(r.map, Tail(dcts)) ELSE r

parse_theme_info(t) == InfoOfDicts(<<>>, t.kids)

\* The tree after parse_theme_info: format_keys rewrote, in place, the
\* text of every top-level key other than "settings".
FormatKeyNode(n) ==
  IF n.tag = "key" /\ n.text # T_settings
  THEN [n EXCEPT !.text = FormatText(n.text)] ELSE n

FormatInfoKeys(t) ==
  [t EXCEPT !.kids =
     MapSeq(t.kids, LAMBDA d : [d EXCEPT !.kids = MapSeq(d.kids, FormatKeyNode)])]

(***************************************************************************)
(* parse_global_values.                                                  *)
(***************************************************************************)
\* Line 130: dct[0].text == "settings" (dct has a first child).
IsGlobalEntry(dct) == dct.kids[1].text = T_settings

\* Lines 129-141 over one array, entry by entry, by index: array.remove
\* shifts the later entries down while the index moves on, so the entry
\* that follows a removed one is not visited.
RECURSIVE GlobalsOfArray(_, _, _)
GlobalsOfArray(gv, array, i) ==
  IF i > Len(array.kids)
  THEN [ok |-> TRUE, map |-> gv, array |-> array]
  ELSE LET dct == array.kids[i]
       IN IF dct.kids = <<>>
          THEN [ok |-> FALSE, map |-> gv, array |-> array]
          ELSE IF ~IsGlobalEntry(dct) \/ Len(dct.kids) < 2
          THEN GlobalsOfArray(gv, array, i + 1)
          ELSE LET keys == findall(dct.kids[2], "key")
                   values == findall(dct.kids[2], "string")
                   r == parse_dict(gv, format_keys(keys), values,
                                   FALSE, NonePalette)
               IN IF ~KeysHaveText(keys) \/ ~r.ok
                  THEN [ok |-> FALSE, map |-> gv, array |-> array]
                  ELSE GlobalsOfArray(
                         r.map,
                         [array EXCEPT !.kids = PopAt(array.kids, i - 1)],
                         i + 1)

\* Lines 128-141 over the children of one root; non-array children stay.
RECURSIVE GlobalsOfKids(_, _, _)
GlobalsOfKids(gv, kids, done) ==
  IF kids = <<>> THEN [ok |-> TRUE, map |-> gv, kids |-> done]
  ELSE IF Head(kids).tag # "array"
       THEN GlobalsOfKids(gv, Tail(kids), Append(done, Head(kids)))
       ELSE LET r == GlobalsOfArray(gv, Head(kids), 1)
            IN IF ~r.ok THEN [ok |-> FALSE, map |-> r.map, kids |-> done]
               ELSE GlobalsOfKids(r.map, Tail(kids), Append(done, r.array))

\* Lines 127-141 over the roots.
RECURSIVE GlobalsOfRoots(_, _, _)
GlobalsOfRoots(gv, roots, done) ==
  IF roots = <<>> THEN [ok |-> TRUE, map |-> gv, roots |-> done]
  ELSE LET r == GlobalsOfKids(gv, Head(roots).kids, <<>>)
       IN IF ~r.ok THEN [ok |-> FALSE, map |-> r.map, roots |-> done]
          ELSE GlobalsOfRoots(r.map, Tail(roots),
                              Append(done, [Head(roots) EXCEPT !.kids = r.kids]))

\* Lines 144-152 for one global value, without the "^" branch.
RECURSIVE ResolveGlobalNoMarker(_, _, _, _, _)
ResolveGlobalNoMarker(gv, key, value, palette, i) ==
  IF i > Len(palette.map) THEN [ok |-> TRUE, map |-> gv]
  ELSE IF value = None \/ value = <<>>
       THEN [ok |-> FALSE, map |-> gv]
  ELSE ResolveGlobalNoMarker(
         IF value = palette.map[i][2]
         THEN Put(gv, key, Var(palette.map[i][1]))
         ELSE gv,
         key, value, palette, i + 1)

\* Lines 144-152 for one global value: value[-1] of None or of "" raises.
RECURSIVE ResolveGlobal(_, _, _, _, _)
ResolveGlobal(gv, key, value, palette, i) ==
  IF i > Len(palette.map) THEN [ok |-> TRUE, map |-> gv]
  ELSE IF value = None \/ value = <<>>
       THEN [ok |-> FALSE, map |-> gv]
  ELSE ResolveGlobal(
         IF Last(value) = "^"
         THEN LET reference == DictGet(palette.references, value)
              IN IF reference # None
                 THEN Put(gv, key, Var(reference))
                 ELSE gv
         ELSE IF value = palette.map[i][2]
              THEN Put(gv, key, Var(palette.map[i][1]))
              ELSE gv,
         key, value, palette, i + 1)

\* Lines 143-152: the items as they were when each is visited.
RECURSIVE ResolveGlobals(_, _, _)
ResolveGlobals(gv, palette, k) ==
  IF k > Len(gv) THEN [ok |-> TRUE, map |-> gv]
  ELSE IF palette.is_none THEN [ok |-> FALSE, map |-> gv]
  ELSE LET r == ResolveGlobal(gv, gv[k][1],
                              gv[k][2], palette, 1)
       IN IF r.ok THEN ResolveGlobals(r.map, palette, k + 1) ELSE r

parse_global_values(t, palette) ==
  LET g == GlobalsOfRoots(<<>>, t.kids, <<>>)
      r == ResolveGlobals(g.map, palette, 1)
  IN IF ~g.ok THEN [ok |-> FALSE, map |-> <<>>, theme |-> t]
     ELSE [ok |-> r.ok, map |-> r.map, theme |-> [t EXCEPT !.kids = g.roots]]

(***************************************************************************)
(* parse_rules.                                                            *)
(***************************************************************************)
\* Lines 238-245: the nested dicts of one entry, merged into rule_map.
RECURSIVE RuleSettings(_, _, _)
RuleSettings(rule_map, settings, palette) ==
  IF settings = <<>> THEN [ok |-> TRUE, map |-> rule_map]
  ELSE LET keys == findall(Head(settings), "key")
           values == findall(Head(settings), "string")
           r == parse_dict(rule_map, format_keys(keys), values, TRUE, palette)
       IN IF ~KeysHaveText(keys) \/ ~r.ok THEN [ok |-> FALSE, map |-> rule_map]
          ELSE RuleSettings(r.map, Tail(settings), palette)

\* Lines 229-247 for one entry; keys[-1] of an empty list raises.
RuleOfEntry(dct, palette) ==
  LET keys == findall(dct, "key")
      values == findall(dct, "string")
  IN IF keys = <<>> THEN [ok |-> FALSE, map |-> <<>>]
     ELSE LET rest == IF Last(keys).text = T_settings
                      THEN SubSeq(keys, 1, Len(keys) - 1) ELSE keys
              r == parse_dict(<<>>, rest, values, FALSE, NonePalette)
          IN IF ~r.ok THEN r
             ELSE RuleSettings(r.map, findall(dct, "dict"), palette)

RECURSIVE RulesOfEntries(_, _, _)
RulesOfEntries(rs, dcts, palette) ==
  IF dcts = <<>> THEN [ok |-> TRUE, rules |-> rs]
  ELSE LET r == RuleOfEntry(Head(dcts), palette)
       IN IF ~r.ok THEN [ok |-> FALSE, rules |-> rs]
          ELSE RulesOfEntries(Append(rs, r.map), Tail(dcts), palette)

\* Every entry of every array of every root, in document order.
EntriesOf(t) ==
  Flatten(MapSeq(t.kids, LAMBDA root :
    Flatten(MapSeq(findall(root, "array"), LAMBDA array : array.kids))))

parse_rules(t, palette) == RulesOfEntries(<<>>, EntriesOf(t), palette)

\* The tree after parse_rules: format_keys rewrote, in place, the keys of
\* every nested dict of every entry.
FormatSettingKeys(t) ==
  LET FmtKey(n) == IF n.tag = "key" THEN [n EXCEPT !.text = FormatText(n.text)]
                   ELSE n
      FmtSetting(n) == IF n.tag = "dict"
                       THEN [n EXCEPT !.kids = MapSeq(n.kids, FmtKey)] ELSE n
      FmtEntry(dct) == [dct EXCEPT !.kids = MapSeq(dct.kids, FmtSetting)]
      FmtArray(n) == IF n.tag = "array"
                     THEN [n EXCEPT !.kids = MapSeq(n.kids, FmtEntry)] ELSE n
      FmtRoot(root) == [root EXCEPT !.kids = MapSeq(root.kids, FmtArray)]
  IN [t EXCEPT !.kids = MapSeq(t.kids, FmtRoot)]

(***************************************************************************)
(* main, lines 309-316.                                                    *)
(***************************************************************************)
\* Line 314 left out.
pop_references_skipped(palette) == palette

\* color_palette.pop("references")
pop_references(palette) == Palette(palette.map, <<>>, FALSE)

\* The keys of the palette dict.
PaletteKeys(palette) ==
  DictKeys(palette.map)
    \o (IF palette.has_references THEN <<T_references>> ELSE <<>>)

\* make_theme: info.update({"variables", "globals", "rules"}).
make_theme(info, gv, palette, rs) ==
  Put(Put(Put(info, T_variables, palette), T_globals, gv), T_rules, rs)

(***************************************************************************)
(* Input trees.                                                            *)
(***************************************************************************)
T_red == <<"#","F","F","0","0","0","0">>
T_green == <<"#","0","0","F","F","0","0">>
T_red_aa == <<"#","F","F","0","0","0","0","A","A">>
T_Comment == <<"C","o","m","m","e","n","t">>
T_comment == <<"c","o","m","m","e","n","t">>
T_orphan == <<"o","r","p","h","a","n">>
T_padded == <<" ","b","o","l","d","\n">>
T_Mono == <<"M","o","n","o">>
T_id == <<"1","2","3","4">>
T_me == <<"m","e">>

ColorTexts == {T_red, T_red_aa}

SettingKeyTexts == <<T_foreground, T_fontStyle>>

\* <key>k1</key><string>v1</string>..., the surplus strings after the pairs.
RECURSIVE Interleave(_, _)
Interleave(ks, vs) ==
  IF ks = <<>> THEN MapSeq(vs, Str)
  ELSE IF vs = <<>> THEN MapSeq(ks, Key)
  ELSE <<Key(Head(ks)), Str(Head(vs))>> \o Interleave(Tail(ks), Tail(vs))

\* The settings dict of a global entry: two keys, up to MaxValues strings.
SettingsDicts ==
  {Dict(Interleave(SettingKeyTexts, vs)) : vs \in SeqsUpTo(ColorTexts, MaxValues)}

\* The settings dict of a rule: one key, up to MaxValues strings.
RuleSettingsDicts ==
  {Dict(Interleave(<<T_foreground>>, vs)) : vs \in SeqsUpTo(ColorTexts, MaxValues)}

GlobalEntry(d) == Dict(<<Key(T_settings), d>>)

RuleEntry(d) ==
  Dict(<<Key(T_name), Str(T_Comment), Key(T_scope), Str(T_comment),
         Key(T_settings), d>>)

RuleSettingsFirst(d) ==
  Dict(<<Key(T_settings), d,
         Key(T_name), Str(T_Comment), Key(T_scope), Str(T_comment)>>)

SampleSettings == Dict(<<Key(T_foreground), Str(T_red_aa)>>)

TwoColorSettings ==
  Dict(<<Key(T_foreground), Str(T_red), Key(T_background), Str(T_green)>>)

BaseAndAlphaSettings ==
  Dict(<<Key(T_foreground), Str(T_red), Key(T_fontStyle), Str(T_red_aa)>>)

StyledSettings ==
  Dict(<<Key(T_foreground), Str(T_red), Key(T_fontStyle), Str(T_padded)>>)

\* One key, two strings: the second string is left over.
SurplusSettings ==
  Dict(<<Key(T_foreground), Str(T_red), Str(T_red_aa)>>)

Entries ==
  {GlobalEntry(d) : d \in SettingsDicts}
    \cup {RuleEntry(d) : d \in RuleSettingsDicts}
    \cup {RuleSettingsFirst(SampleSettings),
          RuleEntry(TwoColorSettings),
          RuleEntry(StyledSettings),
          RuleEntry(SurplusSettings),
          GlobalEntry(SurplusSettings),
          GlobalEntry(BaseAndAlphaSettings),
          Dict(<<Key(T_settings)>>),
          Dict(<<Key(T_name), Str(T_Comment), Key(T_scope), Str(T_comment)>>),
          Dict(<<>>)}

Plist(kids) == Node("plist", None, kids)

\* A theme whose rules array holds up to MaxEntries entries.
ArrayThemes ==
  {Plist(<<Dict(<<Key(T_name), Str(T_Mono), Key(T_settings), Array(es)>>)>>) :
     es \in SeqsUpTo(Entries, MaxEntries)}

SampleArray ==
  Array(<<GlobalEntry(Dict(<<Key(T_foreground), Str(T_red)>>)),
          RuleEntry(SampleSettings)>>)

TopPairs ==
  {<<Key(T_name), Str(T_Mono)>>, <<Key(T_uuid), Str(T_id)>>,
   <<Key(T_author), Str(T_me)>>, <<Key(T_settings), SampleArray>>}

\* A top-level dict is a sequence of distinct key/value pairs.
TopLayouts ==
  {ps \in SeqsUpTo(TopPairs, Cardinality(TopPairs)) :
     \A i, j \in 1..Len(ps) : i # j => ps[i] # ps[j]}

LayoutThemes == {Plist(<<Dict(Flatten(ps))>>) : ps \in TopLayouts}

\* A plist document has one root object, or none.
Themes == {Plist(<<>>)} \cup LayoutThemes \cup ArrayThemes

(***************************************************************************)
(* The conversion, main lines 309-316, one action per call.                *)
(***************************************************************************)
NoZip == [keys |-> <<>>, values |-> <<>>, is_color |-> FALSE,
          palette |-> NonePalette]

NoResult == [ok |-> FALSE, map |-> <<>>]

Init ==
  /\ pc = "info"
  /\ theme \in Themes
  /\ source = theme
  /\ theme_info = <<>>
  /\ color_palette = NonePalette
  /\ global_values = <<>>
  /\ rules = <<>>
  /\ document = <<>>
  /\ ktext = <<>>
  /\ konce = <<>>
  /\ zin = NoZip
  /\ zout = NoResult

ParseThemeInfo ==
  /\ pc = "info"
  /\ LET r == parse_theme_info(theme)
     IN IF r.ok
        THEN /\ theme_info' = r.map
             /\ theme' = FormatInfoKeys(theme)
             /\ pc' = "colors"
        ELSE /\ pc' = "failed"
             /\ UNCHANGED <<theme_info, theme>>
  /\ UNCHANGED <<source, color_palette, global_values, rules, document,
                 ktext, konce, zin, zout>>

ParseColors ==
  /\ pc = "colors"
  /\ LET r == parse_colors(theme)
     IN IF r.ok
        THEN /\ color_palette' = r.palette
             /\ theme' = r.theme
             /\ pc' = "globals"
        ELSE /\ pc' = "failed"
             /\ UNCHANGED <<color_palette, theme>>
  /\ UNCHANGED <<source, theme_info, global_values, rules, document,
                 ktext, konce, zin, zout>>

ParseGlobalValues ==
  /\ pc = "globals"
  /\ LET r == parse_global_values(theme, color_palette)
     IN IF r.ok
        THEN /\ global_values' = r.map
             /\ theme' = r.theme
             /\ pc' = "rules"
        ELSE /\ pc' = "failed"
             /\ UNCHANGED <<global_values, theme>>
  /\ UNCHANGED <<source, theme_info, color_palette, rules, document,
                 ktext, konce, zin, zout>>

ParseRules ==
  /\ pc = "rules"
  /\ LET r == parse_rules(theme, color_palette)
     IN IF r.ok
        THEN /\ rules' = r.rules
             /\ theme' = FormatSettingKeys(theme)
             /\ pc' = "pop"
        ELSE /\ pc' = "failed"
             /\ UNCHANGED <<rules, theme>>
  /\ UNCHANGED <<source, theme_info, color_palette, global_values, document,
                 ktext, konce, zin, zout>>

\* color_palette.pop("references"): None has no pop.
PopReferences ==
  /\ pc = "pop"
  /\ IF color_palette.is_none
     THEN /\ pc' = "failed"
          /\ UNCHANGED color_palette
     ELSE /\ color_palette' = pop_references(color_palette)
          /\ pc' = "make"
  /\ UNCHANGED <<theme, source, theme_info, global_values, rules, document,
                 ktext, konce, zin, zout>>

\* formatted_map is theme_info itself, updated in place.
MakeTheme ==
  /\ pc = "make"
  /\ document' = make_theme(theme_info, global_values, color_palette, rules)
  /\ theme_info' = document'
  /\ pc' = "done"
  /\ UNCHANGED <<theme, source, color_palette, global_values, rules,
                 ktext, konce, zin, zout>>

Next ==
  \/ ParseThemeInfo
  \/ ParseColors
  \/ ParseGlobalValues
  \/ ParseRules
  \/ PopReferences
  \/ MakeTheme

Spec == Init /\ [][Next]_vars

(***************************************************************************)
(* format_keys applied to one key, again and again.                        *)
(***************************************************************************)
KeyAlphabet == {"a", "B", "_", UpperNoLower}

InitKeys ==
  /\ pc = "keys"
  /\ ktext \in SeqsUpTo(KeyAlphabet, MaxKeyLen)
  /\ konce = <<>>
  /\ theme = Plist(<<>>)
  /\ source = theme
  /\ theme_info = <<>>
  /\ color_palette = NonePalette
  /\ global_values = <<>>
  /\ rules = <<>>
  /\ document = <<>>
  /\ zin = NoZip
  /\ zout = NoResult

\* konce records the texts the key had before each call.
FormatKeys ==
  /\ pc = "keys"
  /\ Len(konce) < 2
  /\ ktext' = format_keys(<<Key(ktext)>>)[1].text
  /\ konce' = Append(konce, ktext)
  /\ UNCHANGED <<pc, theme, source, theme_info, color_palette, global_values,
                 rules, document, zin, zout>>

NextKeys == FormatKeys

SpecKeys == InitKeys /\ [][NextKeys]_vars

(***************************************************************************)
(* parse_dict applied to one pair of lists.                                *)
(***************************************************************************)
T_color00 == <<"c","o","l","o","r","0","0">>
T_color01 == <<"c","o","l","o","r","0","1">>

\* The palette parse_colors builds from #FF0000, #FF0000AA.
ZipPalette ==
  Palette(<<<<T_color00, T_red>>,
            <<T_color01, AlphaOfVar(T_color00, 170)>>>>,
          <<<<Append(T_red_aa, "^"), T_color01>>>>,
          TRUE)

ZipKeyTexts == {T_name, T_scope}

ZipValueTexts ==
  {T_Comment, T_comment, T_orphan, T_padded, T_red, Append(T_red_aa, "^"), None}

ZipInputs ==
  {[keys |-> MapSeq(ks, Key), values |-> MapSeq(vs, Str),
    is_color |-> c, palette |-> ZipPalette] :
     ks \in SeqsUpTo(ZipKeyTexts, MaxZipKeys),
     vs \in SeqsUpTo(ZipValueTexts, MaxZipValues),
     c \in BOOLEAN}

InitZip ==
  /\ pc = "zip"
  /\ zin \in ZipInputs
  /\ zout = NoResult
  /\ theme = Plist(<<>>)
  /\ source = theme
  /\ theme_info = <<>>
  /\ color_palette = NonePalette
  /\ global_values = <<>>
  /\ rules = <<>>
  /\ document = <<>>
  /\ ktext = <<>>
  /\ konce = <<>>

ParseDict ==
  /\ pc = "zip"
  /\ zout' = parse_dict(<<>>, zin.keys, zin.values, zin.is_color, zin.palette)
  /\ pc' = "zipped"
  /\ UNCHANGED <<zin, theme, source, theme_info, color_palette, global_values,
                 rules, document, ktext, konce>>

NextZip == ParseDict

SpecZip == InitZip /\ [][NextZip]_vars

(***************************************************************************)
(* The color-definition section of the source tree, read off the tree by   *)
(* position: the "#" texts of the children of the nested dicts of the      *)
(* entries of the arrays of the first root.                                *)
(***************************************************************************)
Marked(t) == IF Len(t) > 7 THEN t \o <<"^">> ELSE t

SectionOcc ==
  IF source.kids = <<>> THEN {}
  ELSE LET root == source.kids[1]
       IN UNION {UNION {UNION {
            {<<a, e, d, c>> :
               c \in {x \in 1..Len(root.kids[a].kids[e].kids[d].kids) :
                        IsColorText(root.kids[a].kids[e].kids[d].kids[x].text)}} :
            d \in {x \in 1..Len(root.kids[a].kids[e].kids) :
                     root.kids[a].kids[e].kids[x].tag = "dict"}} :
            e \in 1..Len(root.kids[a].kids)} :
            a \in {x \in 1..Len(root.kids) : root.kids[x].tag = "array"}}

TextAt(p) ==
  Marked(source.kids[1].kids[p[1]].kids[p[2]].kids[p[3]].kids[p[4]].text)

Before(p, q) ==
  \E i \in 1..4 : p[i] < q[i] /\ \A j \in 1..(i - 1) : p[j] = q[j]

SectionLiterals == {TextAt(p) : p \in SectionOcc}

FirstOcc(L) ==
  CHOOSE p \in SectionOcc :
    TextAt(p) = L /\ \A q \in SectionOcc : TextAt(q) = L => ~Before(q, p)

\* The number of distinct literals that first appear before L does.
Rank(L) ==
  Cardinality({M \in SectionLiterals : Before(FirstOcc(M), FirstOcc(L))})

ExpectedId(L) == ColorId(Rank(L))

\* An alpha-bearing literal #RRGGBBAA, as marked.
IsAlphaLiteral(L) ==
  /\ Len(L) = 10
  /\ L[1] = "#"
  /\ L[10] = "^"
  /\ \A i \in 2..9 : L[i] \in HexDigits

\* n/255 to two decimals: the hundredths nearest to 100n/255.
NearestHundredths(n) ==
  CHOOSE h \in 0..100 :
    /\ 2 * (100 * n - 255 * h) < 255
    /\ 2 * (255 * h - 100 * n) < 255

TwoDecimals(h) ==
  <<DigitChar[(h \div 100) + 1], ".",
    DigitChar[((h % 100) \div 10) + 1], DigitChar[(h % 10) + 1]>>

ExpectedAlpha(L) ==
  <<" ","a","l","p","h","a","(">>
    \o TwoDecimals(NearestHundredths(16 * HexVal(L[8]) + HexVal(L[9])))
    \o <<")",")">>

PaletteBuilt == ~color_palette.is_none /\ color_palette.has_references

(***************************************************************************)
(* C1: every alpha-bearing literal #RRGGBBAA of the section is defined as  *)
(* color(var(baseId) alpha(a)) when #RRGGBB is itself a literal of the     *)
(* palette, whether that base got its id before or after, and as           *)
(* color(#RRGGBB alpha(a)) otherwise, a = AA/255 to two decimals.          *)
(***************************************************************************)
C1_AlphaDefinitions ==
  PaletteBuilt =>
    \A L \in SectionLiterals :
      IsAlphaLiteral(L) =>
        LET base == SubSeq(L, 1, 7)
            def == color_palette.map[Rank(L) + 1][2]
        IN IF base \in SectionLiterals
           THEN def = <<"c","o","l","o","r","(","v","a","r","(">>
                        \o ExpectedId(base) \o <<")">> \o ExpectedAlpha(L)
           ELSE def = <<"c","o","l","o","r","(">> \o base \o ExpectedAlpha(L)

\* The literals #FF0000, #00FF00, #FF0000AA give the palette of the example.
C1_Witness ==
  /\ PaletteBuilt
  /\ color_palette.map =
       << <<T_color00, T_red>>,
          <<T_color01, T_green>>,
          <<<<"c","o","l","o","r","0","2">>,
            <<"c","o","l","o","r","(","v","a","r","(","c","o","l","o","r",
              "0","0",")"," ","a","l","p","h","a","(","0",".","6","7",")",
              ")">>>> >>

(***************************************************************************)
(* C3: ids color00, color01, ... go to the distinct literals of the        *)
(* section in first-appearance order (an 8-digit literal distinct from     *)
(* its 6-digit prefix): one id per literal, no id shared, and the alpha    *)
(* pass rewrites definitions without moving any id.                        *)
(***************************************************************************)
C3_FirstAppearanceIds ==
  PaletteBuilt =>
    /\ Len(color_palette.map) = Cardinality(SectionLiterals)
    /\ \A i \in 1..Len(color_palette.map) :
         color_palette.map[i][1] = ColorId(i - 1)
    /\ \A L \in SectionLiterals :
         IF Last(L) = "^"
         THEN /\ DictGet(color_palette.references, L) = ExpectedId(L)
              /\ color_palette.map[Rank(L) + 1][2] # L
         ELSE color_palette.map[Rank(L) + 1][2] = L
    /\ Len(color_palette.references)
         = Cardinality({L \in SectionLiterals : Last(L) = "^"})

\* A literal that occurs twice, and an alpha literal seen before its base.
C3_Witness ==
  /\ PaletteBuilt
  /\ \E p, q \in SectionOcc : p # q /\ TextAt(p) = TextAt(q)
  /\ \E L \in SectionLiterals :
       /\ IsAlphaLiteral(L)
       /\ SubSeq(L, 1, 7) \in SectionLiterals
       /\ Rank(L) < Rank(SubSeq(L, 1, 7))

(***************************************************************************)
(* C2: a section literal in a settings dictionary is emitted as var(id),   *)
(* id the one id of that literal.  A rule is compared with the entry it    *)
(* was built from; a global value with the settings-first entries.         *)
(***************************************************************************)
Texts(nodes) == [i \in 1..Len(nodes) |-> nodes[i].text]

Min(a, b) == IF a < b THEN a ELSE b

\* The writes a settings dict makes: <<index, key>> for each lockstep pair
\* with a present value, and <<0, last key>> for a surplus value.
SettingWrites(K, V) ==
  {<<i, K[i]>> : i \in {x \in 1..Min(Len(K), Len(V)) : V[x] # None}}
    \cup (IF Len(V) > Len(K) /\ K # <<>> THEN {<<0, Last(K)>>} ELSE {})

RuleValuesResolved ==
  \A j \in 1..Len(rules) :
    LET ds == findall(EntriesOf(theme)[j], "dict")
    IN \A s \in 1..Len(ds) :
         LET K == Texts(findall(ds[s], "key"))
             V == Texts(findall(ds[s], "string"))
         IN \A i \in 1..Min(Len(K), Len(V)) :
              ( /\ V[i] \in SectionLiterals
                /\ \A s2 \in 1..Len(ds) :
                     \A w \in SettingWrites(Texts(findall(ds[s2], "key")),
                                            Texts(findall(ds[s2], "string"))) :
                       w[2] = K[i] => (s2 = s /\ w[1] = i) )
              => /\ HasKey(rules[j], K[i])
                 /\ Get(rules[j], K[i]) = Var(ExpectedId(V[i]))

SettingsFirstEntries ==
  {e \in Range(EntriesOf(source)) :
     Len(e.kids) >= 2 /\ e.kids[1].text = T_settings}

GlobalValuesResolved ==
  \A g \in 1..Len(global_values) :
    \E e \in SettingsFirstEntries :
      LET K == Texts(findall(e.kids[2], "key"))
          V == Texts(findall(e.kids[2], "string"))
      IN \E i \in 1..Len(V) :
           /\ V[i] # None
           /\ \/ i <= Len(K) /\ FormatText(K[i]) = global_values[g][1]
              \/ /\ i = Len(V) /\ Len(V) > Len(K) /\ K # <<>>
                 /\ FormatText(Last(K)) = global_values[g][1]
           /\ global_values[g][2] =
                IF IsColorText(V[i]) /\ Marked(V[i]) \in SectionLiterals
                THEN Var(ExpectedId(Marked(V[i])))
                ELSE IF i <= Len(K) THEN strip(V[i]) ELSE V[i]

C2_OccurrencesResolved ==
  pc = "done" => RuleValuesResolved /\ GlobalValuesResolved

\* A global foreground equal to the literal of color00, a global alpha
\* literal, and a rule whose foreground is a section literal.
C2_Witness ==
  /\ pc = "done"
  /\ HasKey(global_values, T_foreground)
  /\ Get(global_values, T_foreground) = Var(T_color00)
  /\ color_palette.map[1] = <<T_color00, T_red>>
  /\ HasKey(global_values, T_font_style)
  /\ Get(global_values, T_font_style) = Var(T_color01)
  /\ \E j \in 1..Len(rules) :
       /\ HasKey(rules[j], T_foreground)
       /\ Get(rules[j], T_foreground) \in {Var(T_color00), Var(T_color01)}

(***************************************************************************)
(* C4: parse_dict on keys K and values V stores, for each i up to          *)
(* min(len K, len V) whose value is present, the trimmed (and, when        *)
(* enabled, color-resolved) V[i] under K[i], and then, exactly when V is   *)
(* longer than K, the raw text of the last value under the last key.       *)
(***************************************************************************)
ZK == Texts(zin.keys)

ZV == Texts(zin.values)

ZipResolved(v) ==
  IF zin.is_color /\ HasKey(zin.palette.references, v)
  THEN Var(Get(zin.palette.references, v))
  ELSE IF zin.is_color /\ \E i \in 1..Len(zin.palette.map) :
                             zin.palette.map[i][2] = v
  THEN Var(zin.palette.map[CHOOSE i \in 1..Len(zin.palette.map) :
                             zin.palette.map[i][2] = v][1])
  ELSE strip(v)

ZipLockstep(k) == {i \in 1..Min(Len(ZK), Len(ZV)) : ZK[i] = k /\ ZV[i] # None}

ZipOverflow == Len(ZV) > Len(ZK)

ZipExpectedKeys ==
  {k \in Range(ZK) : ZipLockstep(k) # {}}
    \cup (IF ZipOverflow THEN {Last(ZK)} ELSE {})

ZipExpectedValue(k) ==
  IF ZipOverflow /\ k = Last(ZK) THEN Last(ZV)
  ELSE ZipResolved(ZV[CHOOSE i \in ZipLockstep(k) :
                        \A j \in ZipLockstep(k) : j <= i])

C4_PositionalZip ==
  (pc = "zipped" /\ zout.ok) =>
    /\ ZipOverflow => ZK # <<>>
    /\ Range(zout.map) = {<<k, ZipExpectedValue(k)>> : k \in ZipExpectedKeys}
    /\ Len(zout.map) = Cardinality(ZipExpectedKeys)

\* keys [name, scope], values [Comment, comment, orphan].
C4_Witness ==
  /\ pc = "zipped"
  /\ ZK = <<T_name, T_scope>>
  /\ ZV = <<T_Comment, T_comment, T_orphan>>
  /\ zout.ok
  /\ zout.map = << <<T_name, T_Comment>>, <<T_scope, T_orphan>> >>

(***************************************************************************)
(* C5: when the uuid key is not the last of the top-level keys (settings   *)
(* set aside), neither the key uuid nor its value is in the metadata.      *)
(***************************************************************************)
TopKeyTexts(dct) ==
  SelectSeq(Texts(findall(dct, "key")), LAMBDA t : t # T_settings)

UuidNotLast ==
  \A r \in 1..Len(source.kids) :
    LET ks == TopKeyTexts(source.kids[r])
    IN \A i \in 1..Len(ks) : ks[i] = T_uuid => i < Len(ks)

UuidPresent ==
  \E r \in 1..Len(source.kids) : T_uuid \in Range(TopKeyTexts(source.kids[r]))

ReservedKeys == {T_variables, T_globals, T_rules}

C6_NoReferencesKey ==
  pc = "done" =>
    LET ks == PaletteKeys(Get(document, T_variables))
    IN /\ T_references \notin Range(ks)
       /\ \A i \in 1..Len(ks) : ks[i] = ColorId(i - 1)

\* An emitted document with an alpha entry, so the table was not empty.
C6_Witness ==
  /\ pc = "done"
  /\ \E L \in SectionLiterals : IsAlphaLiteral(L)
  /\ Len(Get(document, T_variables).map) >= 2

(***************************************************************************)
(* C7: format_keys is idempotent: a second call leaves the key text as     *)
(* the first call made it, for every key text.                             *)
(***************************************************************************)
C7_Idempotent == Len(konce) = 2 => ktext = konce[2]

HasLowerForms(t) ==
  \A i \in 1..Len(t) : isupper(t[i]) => ~isupper(lower(t[i]))

\* C7, narrowed: format_keys is idempotent on every key text whose
\* uppercase characters all have a lowercase form that is not uppercase
\* (every ASCII key text, the empty text included).
C7_IdempotentWithLowerForms ==
  (Len(konce) = 2 /\ HasLowerForms(konce[1])) => ktext = konce[2]

\* A key with an uppercase letter, formatted twice.
C7_Witness ==
  /\ Len(konce) = 2
  /\ "B" \in Range(konce[1])
  /\ HasLowerForms(konce[1])
  /\ konce[2] # konce[1]
  /\ ktext = konce[2]

(***************************************************************************)
(* C8: an entry of the rules array that has a name or scope key of its     *)
(* own is never taken as the global settings: it stays in the array and    *)
(* is emitted as a rule, wherever its settings key stands.                 *)
(***************************************************************************)
HasOwnNameOrScope(e) ==
  \E i \in 1..Len(e.kids) :
    e.kids[i].tag = "key" /\ e.kids[i].text \in {T_name, T_scope}

NamedEntries(t) ==
  SelectSeq(EntriesOf(t), HasOwnNameOrScope)

NamedRules ==
  SelectSeq(rules, LAMBDA r : HasKey(r, T_name) \/ HasKey(r, T_scope))

C8_NamedEntriesStayRules ==
  /\ pc \in {"rules", "pop", "make", "done"} =>
       Len(NamedEntries(theme)) = Len(NamedEntries(source))
  /\ pc = "done" => Len(NamedRules) = Len(NamedEntries(source))

(***************************************************************************)
(* C9: with no color in the color-definition section (no root, no array,   *)
(* or no "#" string) parse_colors returns an empty palette, and for a      *)
(* tree with no root or no array the conversion runs to its end.           *)
(***************************************************************************)
NoArray ==
  \/ source.kids = <<>>
  \/ findall(source.kids[1], "array") = <<>>

C9_EmptyPalette ==
  /\ (SectionLiterals = {} /\ pc \in {"globals", "rules", "pop"}) =>
       /\ ~color_palette.is_none
       /\ color_palette.map = <<>>
       /\ color_palette.references = <<>>
  /\ NoArray => pc # "failed"

(***************************************************************************)
(* C10: the marker "^" never reaches the output: no value of globals and   *)
(* no value of a rule ends with "^".                                       *)
(***************************************************************************)
EndsWithMarker(v) == v # None /\ v # <<>> /\ Last(v) = "^"

C10_NoMarkerEmitted ==
  pc = "done" =>
    /\ \A g \in 1..Len(global_values) : ~EndsWithMarker(global_values[g][2])
    /\ \A j \in 1..Len(rules) :
         \A i \in 1..Len(rules[j]) : ~EndsWithMarker(rules[j][i][2])

====
